---------------------------- MODULE Spec2Model ----------------------------
(***************************************************************************)
(* Game Vault (src/game_library.py): the record store (load_games,         *)
(* save_games, the add / edit / delete handlers of GameLibraryApp and the  *)
(* sorted listbox) and the launch dispatcher (GameLibraryApp.launch_game). *)
(*                                                                         *)
(* Text is a sequence of one-character strings, so that strip(), lower(),  *)
(* endswith(), startswith() and the JSON text of the backing file are      *)
(* computed character by character.                                        *)
(***************************************************************************)
EXTENDS Integers, Sequences, FiniteSets, TLC

VARIABLES
    games,                \* self.games: the in-memory collection
    selected_game_index,  \* self.selected_game_index: -1 or a 0-based index
    game_listbox,         \* the entries shown by self.game_listbox
    curselection,         \* the highlighted listbox row, -1 when none
    details_frame,        \* what self.details_frame shows: welcome, details or a form
    data_file,            \* DATA_FILE on disk
    clock,                \* number of datetime.now() readings taken so far
    last,                 \* the handler that ran last, with what it saw and did
    sys_platform,         \* sys.platform of the host
    launch                \* the last launch_game call and what it did

vars == <<games, selected_game_index, game_listbox, curselection, details_frame,
          data_file, clock, last, sys_platform, launch>>

storeVars == <<games, selected_game_index, game_listbox, curselection,
               details_frame, data_file, clock, last>>

launchVars == <<sys_platform, launch>>

-----------------------------------------------------------------------------
(* Bounds *)

\* datetime.now() is read at most MaxClock times in a run, which bounds the
\* number of accepted saves.
MaxClock == 1

-----------------------------------------------------------------------------
(* Text *)

\* F applied to the value of v: v is evaluated once, however often F uses it
With(v, F(_)) == CHOOSE r \in {F(x) : x \in {v}} : TRUE

\* The characters that occur in game names, in code point order.
Alphabet == <<"\n", " ", "\"", ".", "/", "0", "1", "2", "3", "4", "5", "6", "7", "8",
              "9", ":", "A", "B", "E", "G", "P", "S", "X", "Z",
              "\\", "a", "b", "c", "d", "e", "g", "h", "i", "l", "m", "n", "o",
              "p", "r", "s", "t", "u", "x", "z", "{", "}">>

Code(c) == CHOOSE i \in 1..Len(Alphabet) : Alphabet[i] = c

\* str.lower() on one character
LowerChar(c) ==
    CASE c = "A" -> "a" [] c = "B" -> "b" [] c = "E" -> "e" [] c = "G" -> "g"
      [] c = "P" -> "p" [] c = "S" -> "s" [] c = "X" -> "x" [] c = "Z" -> "z"
      [] OTHER -> c

Lower(s) == [i \in 1..Len(s) |-> LowerChar(s[i])]

Whitespace == {" ", "\n"}

RECURSIVE LStrip(_)
LStrip(s) == IF s # <<>> /\ Head(s) \in Whitespace THEN LStrip(Tail(s)) ELSE s

RECURSIVE RStrip(_)
RStrip(s) ==
    IF s # <<>> /\ s[Len(s)] \in Whitespace THEN RStrip(SubSeq(s, 1, Len(s) - 1)) ELSE s

\* str.strip()
Strip(s) == RStrip(LStrip(s))

\* str.endswith / str.startswith
EndsWith(s, suffix) ==
    /\ Len(s) >= Len(suffix)
    /\ SubSeq(s, Len(s) - Len(suffix) + 1, Len(s)) = suffix

StartsWith(s, prefix) ==
    /\ Len(s) >= Len(prefix)
    /\ SubSeq(s, 1, Len(prefix)) = prefix

\* s < t in Python's string order (code points, a proper prefix is smaller)
RECURSIVE StrLess(_, _)
StrLess(s, t) ==
    IF t = <<>> THEN FALSE
    ELSE IF s = <<>> THEN TRUE
    ELSE IF Head(s) = Head(t) THEN StrLess(Tail(s), Tail(t))
    ELSE Code(Head(s)) < Code(Head(t))

\* The six keys save_game_from_form writes
K_name        == <<"n", "a", "m", "e">>
K_platform    == <<"p", "l", "a", "t", "f", "o", "r", "m">>
K_launchPath  == <<"l", "a", "u", "n", "c", "h", "P", "a", "t", "h">>
K_image       == <<"i", "m", "a", "g", "e">>
K_description == <<"d", "e", "s", "c", "r", "i", "p", "t", "i", "o", "n">>
K_timestamp   == <<"t", "i", "m", "e", "s", "t", "a", "m", "p">>

\* insertion order of game_data
KeyOrder == <<K_name, K_platform, K_launchPath, K_image, K_description, K_timestamp>>

\* dict.get(key, default)
Get(game, key, default) == IF key \in DOMAIN game THEN game[key] ELSE default

-----------------------------------------------------------------------------
(* JSON text of the backing file: json.dump and json.load.  The layout       *)
(* whitespace of indent=4 is left out of the written text; the reader skips  *)
(* whitespace wherever JSON allows it.                                       *)

\* a writer that escapes nothing
EscapeCharRaw(c) == <<c>>

\* the escapes json.dump writes inside a string
EscapeChar(c) ==
    CASE c = "\"" -> <<"\\", "\"">>
      [] c = "\\" -> <<"\\", "\\">>
      [] c = "\n" -> <<"\\", "n">>
      [] OTHER    -> <<c>>

RECURSIVE Escape(_)
Escape(s) == IF s = <<>> THEN <<>> ELSE EscapeChar(Head(s)) \o Escape(Tail(s))

DumpString(s) == <<"\"">> \o Escape(s) \o <<"\"">>

RECURSIVE DumpMembers(_, _, _)
DumpMembers(game, k, first) ==
    IF k > Len(KeyOrder) THEN <<>>
    ELSE IF KeyOrder[k] \notin DOMAIN game THEN DumpMembers(game, k + 1, first)
    ELSE (IF first THEN <<>> ELSE <<",">>)
         \o DumpString(KeyOrder[k]) \o <<":">> \o DumpString(game[KeyOrder[k]])
         \o DumpMembers(game, k + 1, FALSE)

DumpObject(game) == <<"{">> \o DumpMembers(game, 1, TRUE) \o <<"}">>

RECURSIVE DumpElements(_, _)
DumpElements(gs, k) ==
    IF k > Len(gs) THEN <<>>
    ELSE (IF k = 1 THEN <<>> ELSE <<",">>) \o DumpObject(gs[k]) \o DumpElements(gs, k + 1)

\* json.dump(games, f): the whole text
JsonDumps(games_) == With(games_, LAMBDA gs : <<"[">> \o DumpElements(gs, 1) \o <<"]">>)

ParseFail == [ok |-> FALSE]

RECURSIVE SkipWs(_, _)
SkipWs(t, i) == IF i <= Len(t) /\ t[i] \in Whitespace THEN SkipWs(t, i + 1) ELSE i

At(t, i) == IF i >= 1 /\ i <= Len(t) THEN t[i] ELSE "EOF"

\* the characters of a string up to its closing quote, escapes undone
RECURSIVE ScanChars(_, _, _)
ScanChars(t, j, acc) ==
    IF j > Len(t) THEN ParseFail
    ELSE IF t[j] = "\"" THEN [ok |-> TRUE, val |-> acc, next |-> j + 1]
    ELSE IF t[j] = "\n" THEN ParseFail
    ELSE IF t[j] = "\\" THEN
        IF At(t, j + 1) \in {"\"", "\\"} THEN ScanChars(t, j + 2, Append(acc, t[j + 1]))
        ELSE IF At(t, j + 1) = "n" THEN ScanChars(t, j + 2, Append(acc, "\n"))
        ELSE ParseFail
    ELSE ScanChars(t, j + 1, Append(acc, t[j]))

ParseString(t, i) == IF At(t, i) = "\"" THEN ScanChars(t, i + 1, <<>>) ELSE ParseFail

\* "key": "value" pairs up to the closing brace; a repeated key keeps the last value
RECURSIVE ParseMembers(_, _, _)
ParseMembers(t, i, acc) ==
    With(ParseString(t, i), LAMBDA k :
    IF ~k.ok THEN ParseFail
    ELSE With(SkipWs(t, k.next), LAMBDA c :
         IF At(t, c) # ":" THEN ParseFail
         ELSE With(ParseString(t, SkipWs(t, c + 1)), LAMBDA v :
              IF ~v.ok THEN ParseFail
              ELSE With(SkipWs(t, v.next), LAMBDA e :
                   With([x \in (DOMAIN acc) \cup {k.val} |->
                            IF x = k.val THEN v.val ELSE acc[x]], LAMBDA obj :
                   IF At(t, e) = "}" THEN [ok |-> TRUE, val |-> obj, next |-> e + 1]
                   ELSE IF At(t, e) = "," THEN ParseMembers(t, SkipWs(t, e + 1), obj)
                   ELSE ParseFail)))))

EmptyDict == [x \in {} |-> <<>>]

ParseObject(t, i) ==
    IF At(t, i) # "{" THEN ParseFail
    ELSE With(SkipWs(t, i + 1), LAMBDA j :
         IF At(t, j) = "}" THEN [ok |-> TRUE, val |-> EmptyDict, next |-> j + 1]
         ELSE ParseMembers(t, j, EmptyDict))

RECURSIVE ParseElements(_, _, _)
ParseElements(t, i, acc) ==
    With(ParseObject(t, i), LAMBDA o :
    IF ~o.ok THEN ParseFail
    ELSE With(SkipWs(t, o.next), LAMBDA e :
         With(Append(acc, o.val), LAMBDA elems :
         IF At(t, e) = "]" THEN [ok |-> TRUE, val |-> elems, next |-> e + 1]
         ELSE IF At(t, e) = "," THEN ParseElements(t, SkipWs(t, e + 1), elems)
         ELSE ParseFail)))

ParseArray(t, i) ==
    IF At(t, i) # "[" THEN ParseFail
    ELSE With(SkipWs(t, i + 1), LAMBDA j :
         IF At(t, j) = "]" THEN [ok |-> TRUE, val |-> <<>>, next |-> j + 1]
         ELSE ParseElements(t, j, <<>>))

\* json.load(f): ok = FALSE stands for json.JSONDecodeError
JsonLoads(text) ==
    With(text, LAMBDA t :
    With(ParseArray(t, SkipWs(t, 1)), LAMBDA a :
    IF ~a.ok THEN ParseFail
    ELSE IF SkipWs(t, a.next) # Len(t) + 1 THEN ParseFail
    ELSE [ok |-> TRUE, val |-> a.val]))

-----------------------------------------------------------------------------
(* The record store *)

T_Steam == <<"S", "t", "e", "a", "m">>
T_GoG   == <<"G", "o", "G">>

\* entries of the platforms list offered by the read-only combobox
PlatformChoices == {<<>>, T_Steam, T_GoG}

Digits == <<"0", "1", "2", "3", "4", "5", "6", "7", "8", "9">>

\* datetime.now().isoformat() at the n-th reading of the clock
IsoFormat(n) == <<"t", Digits[n + 1]>>

GameData(name, platform, launch_path, image, description, timestamp) ==
    [k \in {K_name, K_platform, K_launchPath, K_image, K_description, K_timestamp} |->
        CASE k = K_name        -> name
          [] k = K_platform    -> platform
          [] k = K_launchPath  -> launch_path
          [] k = K_image       -> image
          [] k = K_description -> description
          [] OTHER             -> timestamp]

\* a merge that keeps the values the record already has
DictUpdateKeepsOld(game, data) ==
    [k \in (DOMAIN game) \cup (DOMAIN data) |->
        IF k \in DOMAIN game THEN game[k] ELSE data[k]]

\* dict.update(data)
DictUpdate(game, data) ==
    [k \in (DOMAIN game) \cup (DOMAIN data) |->
        IF k \in DOMAIN data THEN data[k] ELSE game[k]]

Absent == [exists |-> FALSE, text |-> <<>>]
FileOf(t) == [exists |-> TRUE, text |-> t]

\* a loader that reports no decoding error
load_games_silent(f, read_error) ==
    IF ~f.exists THEN [games |-> <<>>, notices |-> <<>>, how |-> "absent"]
    ELSE IF read_error THEN
        [games |-> <<>>, notices |-> <<"showerror: An error occurred loading games">>,
         how |-> "read_error"]
    ELSE LET r == JsonLoads(f.text) IN
         IF r.ok THEN [games |-> r.val, notices |-> <<>>, how |-> "loaded"]
         ELSE [games |-> <<>>, notices |-> <<>>, how |-> "decode_error"]

\* load_games(): read_error says that open() or the read raised something other
\* than json.JSONDecodeError
load_games(f, read_error) ==
    IF ~f.exists THEN [games |-> <<>>, notices |-> <<>>, how |-> "absent"]
    ELSE IF read_error THEN
        [games |-> <<>>, notices |-> <<"showerror: An error occurred loading games">>,
         how |-> "read_error"]
    ELSE LET r == JsonLoads(f.text) IN
         IF r.ok THEN [games |-> r.val, notices |-> <<>>, how |-> "loaded"]
         ELSE [games |-> <<>>,
               notices |-> <<"showerror: Could not decode game_library.json">>,
               how |-> "decode_error"]

SaveOutcomes == {"ok", "open_fail", "write_fail"}

\* what is on disk when the write stops part way: open(..., 'w') has emptied
\* the file and a leading part of the text has reached it
WrittenPrefix(t) == SubSeq(t, 1, Len(t) \div 2)

\* save_games(games): outcome is what the file system does to the write, which
\* the handlers below draw from SaveOutcomes
save_games(gs, f, outcome) ==
    CASE outcome = "ok" ->
            [file |-> FileOf(JsonDumps(gs)), notices |-> <<>>]
      [] outcome = "open_fail" ->
            [file |-> f, notices |-> <<"showerror: Failed to save games">>]
      [] OTHER ->
            [file |-> FileOf(WrittenPrefix(JsonDumps(gs))),
             notices |-> <<"showerror: Failed to save games">>]

\* a key that keeps the case of the name
SortKeyCaseSensitive(game) == Get(game, K_name, <<>>)

\* the key of self.games.sort
SortKey(game) == Lower(Get(game, K_name, <<>>))

\* g is placed behind every element whose key is not greater than its own
RECURSIVE InsertByKey(_, _)
InsertByKey(sorted, g) ==
    IF sorted = <<>> THEN <<g>>
    ELSE IF StrLess(SortKey(g), SortKey(Head(sorted))) THEN <<g>> \o sorted
    ELSE <<Head(sorted)>> \o InsertByKey(Tail(sorted), g)

RECURSIVE SortFrom(_, _, _)
SortFrom(gs, k, acc) ==
    IF k > Len(gs) THEN acc
    ELSE With(InsertByKey(acc, gs[k]), LAMBDA placed : SortFrom(gs, k + 1, placed))

\* list.sort(key=...): the stable sort
SortGames(games_) == With(games_, LAMBDA gs : SortFrom(gs, 1, <<>>))

T_Untitled == <<"U", "n", "t", "i", "t", "l", "e", "d", " ", "G", "a", "m", "e">>

\* the text game_listbox.insert receives for one game
ListboxEntry(game) == Get(game, K_name, T_Untitled)

\* populate_game_list(): the sorted collection and the listbox rows
populate_game_list(gs) ==
    With(SortGames(gs), LAMBDA sorted :
    [games |-> sorted, listbox |-> [k \in 1..Len(sorted) |-> ListboxEntry(sorted[k])]])

Welcome == [view |-> "welcome"]

Details(game) == [view |-> "details", game |-> game]

\* show_game_form(game): the game the form was opened for (the empty dict
\* stands for None), the widgets and what they are filled with
show_game_form(is_edit_mode, game) ==
    [view |-> "form", is_edit_mode |-> is_edit_mode, game |-> game,
     name        |-> IF is_edit_mode THEN Get(game, K_name, <<>>) ELSE <<>>,
     platform    |-> IF is_edit_mode THEN Get(game, K_platform, <<>>) ELSE <<>>,
     launchPath  |-> IF is_edit_mode THEN Get(game, K_launchPath, <<>>) ELSE <<>>,
     image       |-> IF is_edit_mode THEN Get(game, K_image, <<>>) ELSE <<>>,
     description |-> IF is_edit_mode THEN Get(game, K_description, <<>>) ELSE <<>>]

NoArg == [name |-> <<>>, platform |-> <<>>, launchPath |-> <<>>, image |-> <<>>,
          description |-> <<>>]

\* what a handler leaves in `last`: the notices it showed, how its save_games
\* call ended ("none" when it made none), how its load_games call ended, the
\* list it handed to populate_game_list, the form its Save Game button belongs
\* to ("add" or "edit", with the game that form was opened for), and the state
\* it started from
Ran(op, notices, save, confirmed, raised, arg) ==
    [op |-> op, notices |-> notices, save |-> save, confirmed |-> confirmed,
     raised |-> raised, arg |-> arg, load |-> "none", unsorted |-> <<>>,
     form |-> "none", shown |-> EmptyDict,
     pre_games |-> games, pre_file |-> data_file,
     pre_selected |-> selected_game_index]

-----------------------------------------------------------------------------
(* Inputs *)

\* a form field the user leaves as the form shows it
Keep == <<"KEEP">>

Typed(name, platform, launchPath, image, description) ==
    [name |-> name, platform |-> platform, launchPath |-> launchPath,
     image |-> image, description |-> description]

\* what the user does to the form before pressing Save Game
FormInputs ==
    { Typed(Keep, Keep, Keep, Keep, <<"x">>),
      Typed(<<" ", "A", " ">>, T_Steam, <<"/", "x", " ">>, <<>>, <<"\"", " ">>),
      Typed(<<" ">>, T_GoG, Keep, Keep, Keep),
      Typed(<<"B">>, <<>>, Keep, Keep, Keep) }

\* collections found in the backing file at start-up: written by this program
\* (unsorted on disk), and written by hand (a record without a name, a name
\* with blanks around it, a quote and a line break in a description)
StoredByProgram ==
    << GameData(<<"Z">>, T_Steam, <<"g", ".", "e", "x", "e">>, <<>>, <<"\"">>, IsoFormat(0)),
       GameData(<<"a">>, T_GoG, <<>>, <<>>, <<>>, IsoFormat(0)) >>

StoredByHand ==
    << [k \in {K_name, K_platform} |-> IF k = K_name THEN <<" ", "a", " ">> ELSE T_Steam],
       [k \in {K_platform, K_description} |->
            IF k = K_platform THEN T_GoG ELSE <<"x", "\n", "x">>] >>

InitFiles ==
    { Absent,
      FileOf(<<"[", "{", "\"", "n">>),
      FileOf(JsonDumps(StoredByProgram)),
      FileOf(<<" ">> \o JsonDumps(StoredByHand) \o <<"\n">>) }

-----------------------------------------------------------------------------
(* The handlers *)

NoLaunch == [called |-> FALSE]

\* GameLibraryApp.__init__: load_games, selected_game_index = -1,
\* create_widgets (which ends in show_welcome_message), populate_game_list
Startup(f, read_error, op) ==
    LET loaded == load_games(f, read_error)
        pop    == populate_game_list(loaded.games)
    IN /\ games = pop.games
       /\ game_listbox = pop.listbox
       /\ selected_game_index = -1
       /\ curselection = -1
       /\ details_frame = Welcome
       /\ data_file = f
       /\ clock = 0
       /\ last = [op |-> op, notices |-> loaded.notices, save |-> "none",
                  confirmed |-> FALSE, raised |-> FALSE, arg |-> NoArg,
                  pre_games |-> <<>>, pre_file |-> f, pre_selected |-> -1,
                  load |-> loaded.how, unsorted |-> loaded.games,
                  form |-> "none", shown |-> EmptyDict]

Init ==
    /\ \E f \in InitFiles, read_error \in BOOLEAN : Startup(f, read_error, "init")
    /\ sys_platform = "linux"
    /\ launch = NoLaunch

\* on_game_select after the user clicks row i of the listbox
on_game_select(i) ==
    /\ i \in 0..(Len(game_listbox) - 1)
    /\ curselection' = i
    /\ selected_game_index' = i
    /\ details_frame' = Details(games[i + 1])
    /\ last' = Ran("select", <<>>, "none", FALSE, FALSE, NoArg)
    /\ UNCHANGED <<games, game_listbox, data_file, clock>>

\* on_game_select when the listbox has lost its highlight
on_game_deselect ==
    /\ curselection # -1
    /\ curselection' = -1
    /\ selected_game_index' = -1
    /\ details_frame' = Welcome
    /\ last' = Ran("deselect", <<>>, "none", FALSE, FALSE, NoArg)
    /\ UNCHANGED <<games, game_listbox, data_file, clock, launchVars>>

\* show_add_game_form
show_add_game_form ==
    /\ details_frame' = show_game_form(FALSE, EmptyDict)
    /\ last' = Ran("add_form", <<>>, "none", FALSE, FALSE, NoArg)
    /\ UNCHANGED <<games, selected_game_index, game_listbox, curselection, data_file, clock,
                   launchVars>>

\* show_edit_game_form; games[selected_game_index] raises IndexError when the
\* index is out of range
show_edit_game_form ==
    /\ IF selected_game_index = -1 THEN
          /\ last' = Ran("edit_form", <<"showwarning: No Game Selected">>, "none",
                         FALSE, FALSE, NoArg)
          /\ UNCHANGED details_frame
       ELSE IF selected_game_index + 1 \notin 1..Len(games) THEN
          /\ last' = Ran("edit_form", <<>>, "none", FALSE, TRUE, NoArg)
          /\ UNCHANGED details_frame
       ELSE
          /\ details_frame' = show_game_form(TRUE, games[selected_game_index + 1])
          /\ last' = Ran("edit_form", <<>>, "none", FALSE, FALSE, NoArg)
    /\ UNCHANGED <<games, selected_game_index, game_listbox, curselection, data_file, clock,
                   launchVars>>

\* the Cancel button of the form: show_welcome_message
cancel_form ==
    /\ details_frame.view = "form"
    /\ details_frame' = Welcome
    /\ last' = Ran("cancel", <<>>, "none", FALSE, FALSE, NoArg)
    /\ UNCHANGED <<games, selected_game_index, game_listbox, curselection, data_file, clock,
                   launchVars>>

Entered(typed, shown) == IF typed = Keep THEN shown ELSE typed

\* the widgets' contents when Save Game is pressed
Widgets(input) ==
    [name        |-> Entered(input.name, details_frame.name),
     platform    |-> Entered(input.platform, details_frame.platform),
     launchPath  |-> Entered(input.launchPath, details_frame.launchPath),
     image       |-> Entered(input.image, details_frame.image),
     description |-> Entered(input.description, details_frame.description)]

\* a test that forgets the platform
MissingRequiredNameOnly(name, platform) == name = <<>>

\* the test that rejects the form
MissingRequired(name, platform) == name = <<>> \/ platform = <<>>

\* a save that always appends
UpdatesInPlaceNever(is_edit_mode, index) == FALSE

\* the branch that updates in place rather than appends
UpdatesInPlace(is_edit_mode, index) == is_edit_mode /\ index # -1

\* save_game_from_form, from the strip() calls to show_welcome_message
save_game_from_form(input) ==
    /\ details_frame.view = "form"
    /\ LET w           == Widgets(input)
           name        == Strip(w.name)
           platform    == Strip(w.platform)
           launch_path == Strip(w.launchPath)
           image       == Strip(w.image)
           \* Text.get('1.0', tk.END) ends with the line break Tk adds
           description == Strip(w.description \o <<"\n">>)
           is_edit     == details_frame.is_edit_mode
           Pressed(r)  == [r EXCEPT !.form = IF is_edit THEN "edit" ELSE "add",
                                    !.shown = details_frame.game]
       IN
       IF MissingRequired(name, platform) THEN
          /\ details_frame' = [details_frame EXCEPT
                 !.name = w.name, !.platform = w.platform, !.launchPath = w.launchPath,
                 !.image = w.image, !.description = w.description]
          /\ last' = Pressed(Ran("save_form", <<"showwarning: Input Error">>, "none",
                                 FALSE, FALSE, w))
          /\ UNCHANGED <<games, selected_game_index, game_listbox, curselection,
                         data_file, clock>>
       ELSE
          /\ clock < MaxClock
          /\ clock' = clock + 1
          /\ LET game_data == GameData(name, platform, launch_path, image, description,
                                       IsoFormat(clock + 1))
             IN
             IF UpdatesInPlace(is_edit, selected_game_index)
                /\ selected_game_index + 1 \notin 1..Len(games) THEN
                \* IndexError leaves the handler
                /\ last' = Pressed(Ran("save_form", <<>>, "none", FALSE, TRUE, w))
                /\ details_frame' = [details_frame EXCEPT
                       !.name = w.name, !.platform = w.platform,
                       !.launchPath = w.launchPath, !.image = w.image,
                       !.description = w.description]
                /\ UNCHANGED <<games, selected_game_index, game_listbox, curselection,
                               data_file>>
             ELSE \E outcome \in SaveOutcomes :
                LET updating == UpdatesInPlace(is_edit, selected_game_index)
                    changed  == IF updating
                                THEN [games EXCEPT ![selected_game_index + 1] =
                                          DictUpdate(@, game_data)]
                                ELSE Append(games, game_data)
                    note     == IF updating
                                THEN "showinfo: Game updated successfully!"
                                ELSE "showinfo: Game added successfully!"
                    saved    == save_games(changed, data_file, outcome)
                    pop      == populate_game_list(changed)
                IN /\ games' = pop.games
                   /\ game_listbox' = pop.listbox
                   /\ curselection' = -1
                   /\ data_file' = saved.file
                   /\ details_frame' = Welcome
                   /\ last' = [Pressed(Ran(IF updating THEN "save_edit" ELSE "save_add",
                                           <<note>> \o saved.notices, outcome, FALSE,
                                           FALSE, w))
                                 EXCEPT !.unsorted = changed]
                   /\ UNCHANGED selected_game_index

\* a delete that leaves the index where it was
SelectionKeptAfterDelete(index) == index

\* self.selected_game_index = -1 at the end of a confirmed delete
SelectionAfterDelete(index) == -1

\* a deletion that takes the index for a 1-based position
DeleteAtOneBased(gs, index) ==
    [k \in 1..(Len(gs) - 1) |-> IF k < index THEN gs[k] ELSE gs[k + 1]]

\* del self.games[index]
DeleteAt(gs, index) ==
    [k \in 1..(Len(gs) - 1) |-> IF k < index + 1 THEN gs[k] ELSE gs[k + 1]]

\* delete_game, with the user's answer to the confirmation
delete_game(confirmed) ==
    IF selected_game_index = -1 THEN
       /\ last' = Ran("delete", <<"showwarning: No Game Selected">>, "none",
                      FALSE, FALSE, NoArg)
       /\ UNCHANGED <<games, selected_game_index, game_listbox, curselection,
                      details_frame, data_file, clock>>
    ELSE IF selected_game_index + 1 \notin 1..Len(games) THEN
       /\ last' = Ran("delete", <<>>, "none", FALSE, TRUE, NoArg)
       /\ UNCHANGED <<games, selected_game_index, game_listbox, curselection,
                      details_frame, data_file, clock>>
    ELSE IF ~confirmed THEN
       /\ last' = Ran("delete", <<"askyesno: Confirm Delete">>, "none",
                      FALSE, FALSE, NoArg)
       /\ UNCHANGED <<games, selected_game_index, game_listbox, curselection,
                      details_frame, data_file, clock>>
    ELSE \E outcome \in SaveOutcomes :
       LET changed == DeleteAt(games, selected_game_index)
           saved   == save_games(changed, data_file, outcome)
           pop     == populate_game_list(changed)
       IN /\ games' = pop.games
          /\ game_listbox' = pop.listbox
          /\ curselection' = -1
          /\ data_file' = saved.file
          /\ selected_game_index' = SelectionAfterDelete(selected_game_index)
          /\ details_frame' = Welcome
          /\ clock' = clock
          /\ last' = [Ran("delete", <<"askyesno: Confirm Delete">> \o saved.notices
                                    \o <<"showinfo: Game deleted successfully.">>,
                          outcome, TRUE, FALSE, NoArg)
                        EXCEPT !.unsorted = changed]

\* the window is closed and the program started again.  The window is closed
\* from the welcome view: every handler that writes the backing file ends in
\* show_welcome_message, so every content of the file is met there.
Restart(read_error) ==
    /\ details_frame = Welcome
    /\ LET loaded == load_games(data_file, read_error)
           pop    == populate_game_list(loaded.games)
       IN /\ games' = pop.games
          /\ game_listbox' = pop.listbox
          /\ selected_game_index' = -1
          /\ curselection' = -1
          /\ details_frame' = Welcome
          /\ last' = [Ran("restart", loaded.notices, "none", FALSE, FALSE, NoArg)
                        EXCEPT !.load = loaded.how, !.unsorted = loaded.games]
          /\ UNCHANGED <<data_file, clock>>

Select ==
    /\ \E i \in 0..(Len(game_listbox) - 1) : on_game_select(i)
    /\ UNCHANGED launchVars

SaveForm ==
    /\ \E input \in FormInputs : save_game_from_form(input)
    /\ UNCHANGED launchVars

Delete ==
    /\ \E confirmed \in BOOLEAN : delete_game(confirmed)
    /\ UNCHANGED launchVars

Reopen ==
    /\ \E read_error \in BOOLEAN : Restart(read_error)
    /\ UNCHANGED launchVars

Next ==
    \/ Select
    \/ on_game_deselect
    \/ show_add_game_form
    \/ show_edit_game_form
    \/ cancel_form
    \/ SaveForm
    \/ Delete
    \/ Reopen

Spec == Init /\ [][Next]_vars

-----------------------------------------------------------------------------
(* The launch dispatcher *)

T_exe       == <<".", "e", "x", "e">>
T_steam     == <<"s", "t", "e", "a", "m", ":", "/", "/">>
T_epicgames == <<"e", "p", "i", "c", "g", "a", "m", "e", "s", ":", "/", "/">>

\* launch paths of the records the user launches
LaunchPaths ==
    { <<>>,
      <<"g", ".", "e", "x", "e">>,
      <<"G", ".", "E", "X", "E">>,
      T_steam \o <<"x">>,
      T_steam \o <<"x", ".", "e", "x", "e">>,
      <<"S", "t", "e", "a", "m", ":", "/", "/", "x">>,
      T_epicgames \o <<"a">>,
      T_epicgames \o <<"a", ".", "E", "x", "e">>,
      <<"/", "x">> }

Hosts == {"win32", "darwin", "linux"}

\* what the host does during one launch_game call:
\*   answer     the user's answer to askyesno
\*   popen      how subprocess.Popen ends: it raises FileNotFoundError when the
\*              program it is asked to run (the shell, open, xdg-open) is not
\*              found, whatever the launch path is
\*   exists     whether the launch path exists on the file system
\*   refused    whether the OS refuses to open an existing path
Envs ==
    [answer : BOOLEAN, popen : {"ok", "FileNotFoundError", "OSError"},
     exists : BOOLEAN, refused : BOOLEAN]

\* how os.startfile(path) ends
StartFile(env) ==
    IF ~env.exists THEN "FileNotFoundError"
    ELSE IF env.refused THEN "OSError"
    ELSE "ok"

Call(mech, result) == [mech |-> mech, result |-> result]

Launched(path, env, prompts, calls, notices) ==
    [called |-> TRUE, path |-> path, env |-> env, prompts |-> prompts,
     calls |-> calls, notices |-> notices, raised |-> FALSE]

\* a test that misses upper-case extensions
IsExeCaseSensitive(path) == EndsWith(path, T_exe)

\* path.lower().endswith(".exe")
IsExe(path) == EndsWith(Lower(path), T_exe)

\* a standard open that is given up once the user has been asked about
\* elevation
OpenWithUnlessAsked(path, env, prompts, mech, result) ==
    IF prompts # <<>> THEN Launched(path, env, prompts, <<>>, <<>>)
    ELSE Launched(path, env, prompts, <<Call(mech, result)>>,
             IF result = "ok" THEN <<"showinfo: Attempting to launch">>
             ELSE IF result = "FileNotFoundError"
                  THEN <<"showerror: The specified path does not exist">>
             ELSE <<"showerror: Could not launch">>)

\* the try block shared by the macOS and the Linux branch, and by the windows
\* else branch with os.startfile in place of Popen
OpenWith(path, env, prompts, mech, result) ==
    Launched(path, env, prompts, <<Call(mech, result)>>,
        IF result = "ok" THEN <<"showinfo: Attempting to launch">>
        ELSE IF result = "FileNotFoundError"
             THEN <<"showerror: The specified path does not exist">>
        ELSE <<"showerror: Could not launch">>)

\* the two windows branches that hand a URI to explorer
OpenUri(path, env, prompts, ok_notice, error_notice) ==
    Launched(path, env, prompts, <<Call("Popen explorer", env.popen)>>,
        IF env.popen = "ok" THEN <<ok_notice>> ELSE <<error_notice>>)

\* an elevated launch that gives up when the elevated start fails
ElevatedNoFallback(path, env) ==
    Launched(path, env, <<"askyesno: Launch as Admin?">>,
        <<Call("Popen powershell RunAs", env.popen)>>,
        IF env.popen = "ok" THEN <<"showinfo: Attempting to launch as administrator">>
        ELSE <<"showerror: Could not launch as administrator, falling back">>)

\* the branch taken once the user has agreed to launch as administrator
Elevated(path, env) ==
    IF env.popen = "ok" THEN
        Launched(path, env, <<"askyesno: Launch as Admin?">>,
            <<Call("Popen powershell RunAs", "ok")>>,
            <<"showinfo: Attempting to launch as administrator">>)
    ELSE
        Launched(path, env, <<"askyesno: Launch as Admin?">>,
            <<Call("Popen powershell RunAs", env.popen),
              Call("os.startfile", StartFile(env))>>,
            <<"showerror: Could not launch as administrator, falling back">>
            \o (IF StartFile(env) = "ok"
                THEN <<"showinfo: Attempting standard launch">>
                ELSE <<"showerror: Could not launch via standard method">>))

\* launch_game(path) on host `host`
launch_game(path, host, env) ==
    IF path = <<>> THEN
        Launched(path, env, <<>>, <<>>, <<"showinfo: No launch path specified">>)
    ELSE IF host = "win32" THEN
        LET prompts == IF IsExe(path) THEN <<"askyesno: Launch as Admin?">> ELSE <<>> IN
        IF IsExe(path) /\ env.answer THEN Elevated(path, env)
        ELSE IF StartsWith(path, T_steam) THEN
            OpenUri(path, env, prompts, "showinfo: Attempting to launch Steam game via URI",
                    "showerror: Could not launch Steam game via URI")
        ELSE IF StartsWith(path, T_epicgames) THEN
            OpenUri(path, env, prompts, "showinfo: Attempting to launch Epic Games via URI",
                    "showerror: Could not launch Epic Games via URI")
        ELSE OpenWith(path, env, prompts, "os.startfile", StartFile(env))
    ELSE IF host = "darwin" THEN OpenWith(path, env, <<>>, "Popen open", env.popen)
    ELSE OpenWith(path, env, <<>>, "Popen xdg-open", env.popen)

\* the Launch Game button of the details view
LaunchGame ==
    /\ \E path \in LaunchPaths, env \in Envs :
           launch' = launch_game(path, sys_platform, env)
    /\ UNCHANGED storeVars
    /\ UNCHANGED sys_platform

LaunchInit ==
    /\ Startup(FileOf(JsonDumps(StoredByProgram)), FALSE, "init")
    /\ sys_platform \in Hosts
    /\ launch = NoLaunch

LaunchNext == LaunchGame

LaunchSpec == LaunchInit /\ [][LaunchNext]_vars

-----------------------------------------------------------------------------
(* Properties of the record store, checked under Spec *)

SaveOps == {"save_form", "save_add", "save_edit"}

\* the number of times x occurs in the sequence s
Count(s, x) == Cardinality({k \in 1..Len(s) : s[k] = x})

Range(s) == {s[k] : k \in 1..Len(s)}

\* s and t hold the same records the same number of times
SameBag(s, t) ==
    /\ Len(s) = Len(t)
    /\ \A x \in Range(s) \cup Range(t) : Count(s, x) = Count(t, x)

\* C1: when save_game_from_form runs with a name or a platform that is empty
\* after trimming, in add or in edit mode, the collection is what it was, no
\* save_games call is made and the backing file is what it was.
C1_RejectedSaveChangesNothing ==
    (/\ last.op \in SaveOps
     /\ (Strip(last.arg.name) = <<>> \/ Strip(last.arg.platform) = <<>>))
    => /\ games = last.pre_games
       /\ data_file = last.pre_file
       /\ last.save = "none"
       /\ last.notices = <<"showwarning: Input Error">>
       /\ details_frame.view = "form"

C1_Witness ==
    /\ last.op = "save_form"
    /\ details_frame.view = "form"
    /\ details_frame.is_edit_mode
    /\ Strip(last.arg.name) # <<>>
    /\ Strip(last.arg.platform) = <<>>
    /\ Len(games) = 2

\* the record an accepted form stands for
FormRecord(w, n) ==
    GameData(Strip(w.name), Strip(w.platform), Strip(w.launchPath), Strip(w.image),
             Strip(w.description \o <<"\n">>), IsoFormat(n))

\* C2: after an add is saved successfully, load_games() on the backing file
\* returns exactly the records of the old collection plus the new record,
\* order ignored.
C2_AddPersistReloadRoundTrips ==
    (last.op = "save_add" /\ last.save = "ok")
    => LET loaded == load_games(data_file, FALSE) IN
       /\ loaded.how = "loaded"
       /\ SameBag(loaded.games, Append(last.pre_games, FormRecord(last.arg, clock)))

C2_Witness ==
    /\ last.op = "save_add"
    /\ last.save = "ok"
    /\ Len(last.pre_games) = 2
    /\ Strip(last.arg.description \o <<"\n">>) = <<"\"">>
    /\ load_games(data_file, FALSE).games # games

\* the collection and the index delete_game started from
RemainingAfterDelete ==
    /\ Len(games) = Len(last.pre_games) - 1
    /\ \A k \in 1..Len(games) :
          games[k] = last.pre_games[IF k <= last.pre_selected THEN k ELSE k + 1]

\* C3 as claimed: a confirmed delete removes exactly the selected record, keeps
\* the others in order, and the backing file then holds the reduced
\* collection; a declined delete or one without selection changes nothing.
C3_DeleteOverwritesFile ==
    (last.op = "delete" /\ ~last.raised)
    => IF last.confirmed
       THEN RemainingAfterDelete /\ data_file = FileOf(JsonDumps(games))
       ELSE games = last.pre_games /\ data_file = last.pre_file

\* C3 as amended: a confirmed delete removes exactly the selected record and
\* keeps the others in order; the backing file holds the reduced collection
\* when save_games succeeds, and is what it was when the file cannot be opened
\* for writing; a declined delete or one without selection changes nothing.
C3_DeleteRemovesSelected ==
    (last.op = "delete" /\ ~last.raised)
    => IF last.confirmed
       THEN /\ RemainingAfterDelete
            /\ last.save = "ok" => data_file = FileOf(JsonDumps(games))
            /\ last.save = "open_fail" => data_file = last.pre_file
       ELSE games = last.pre_games /\ data_file = last.pre_file

C3_Witness ==
    /\ last.op = "delete"
    /\ last.confirmed
    /\ last.save = "ok"
    /\ Len(last.pre_games) = 2
    /\ last.pre_selected = 1
    /\ data_file # last.pre_file

RemoveAt(s, j) == [k \in 1..(Len(s) - 1) |-> IF k < j THEN s[k] ELSE s[k + 1]]

\* the record the edit form was opened for
EditedBefore == last.pre_games[last.pre_selected + 1]

\* the user changed nothing in the form but the description
OnlyDescriptionTyped ==
    /\ last.op = "save_edit"
    /\ last.arg.name = Get(EditedBefore, K_name, <<>>)
    /\ last.arg.platform = Get(EditedBefore, K_platform, <<>>)
    /\ last.arg.launchPath = Get(EditedBefore, K_launchPath, <<>>)
    /\ last.arg.image = Get(EditedBefore, K_image, <<>>)

OtherFields == {K_name, K_platform, K_launchPath, K_image}

\* C4 as claimed: an edit that provides only a description changes only the
\* description and the timestamp of the selected record; its other fields keep
\* their prior values, the other records and the length are unchanged.
C4_OnlyDescriptionAndTimestampChange ==
    OnlyDescriptionTyped
    => /\ Len(games) = Len(last.pre_games)
       /\ \E j \in 1..Len(games) :
             /\ RemoveAt(games, j) = RemoveAt(last.pre_games, last.pre_selected + 1)
             /\ \A k \in (DOMAIN EditedBefore) \ {K_description, K_timestamp} :
                   k \in DOMAIN games[j] /\ games[j][k] = EditedBefore[k]

\* C4 as amended: such an edit rewrites the selected record from the form: the
\* description is the trimmed text of the form, the timestamp is the new clock
\* reading, and name, platform, launchPath and image are their prior values
\* with the surrounding whitespace trimmed (the empty text for an absent
\* field), so that a field stored trimmed keeps its value; the other records
\* and the length are unchanged.
C4_EditRewritesFromTrimmedForm ==
    OnlyDescriptionTyped
    => /\ Len(games) = Len(last.pre_games)
       /\ \E j \in 1..Len(games) :
             /\ RemoveAt(games, j) = RemoveAt(last.pre_games, last.pre_selected + 1)
             /\ DOMAIN games[j] = (DOMAIN EditedBefore) \cup Range(KeyOrder)
             /\ \A k \in OtherFields :
                   /\ games[j][k] = Strip(Get(EditedBefore, k, <<>>))
                   /\ (k \in DOMAIN EditedBefore /\ Strip(EditedBefore[k]) = EditedBefore[k])
                      => games[j][k] = EditedBefore[k]
             /\ games[j][K_description] = Strip(last.arg.description \o <<"\n">>)
             /\ games[j][K_timestamp] = IsoFormat(clock)

C4_Witness ==
    /\ OnlyDescriptionTyped
    /\ Len(games) = 2
    /\ last.pre_selected = 0
    /\ Get(EditedBefore, K_description, <<>>) # <<"x">>
    /\ games[1][K_description] = <<"x">>
    /\ games[1][K_name] = EditedBefore[K_name]

\* the key the sorted view is ordered by: the lowercased name, the empty text
\* for a record without a name
LoweredName(game) == Lower(Get(game, K_name, <<>>))

\* the records of s whose lowered name is v, in the order s has them
WithLoweredName(s, v) ==
    LET Has(g) == LoweredName(g) = v IN SelectSeq(s, Has)

\* `after` holds the records of `before`, ordered by lowered name, records
\* with equal lowered names in the order `before` has them
StableSortedView(after, before) ==
    /\ Len(after) = Len(before)
    /\ \A k \in 1..(Len(after) - 1) :
          ~StrLess(LoweredName(after[k + 1]), LoweredName(after[k]))
    /\ \A g \in Range(after) \cup Range(before) :
          WithLoweredName(after, LoweredName(g)) = WithLoweredName(before, LoweredName(g))

Populated ==
    \/ last.op \in {"init", "restart", "save_add", "save_edit"}
    \/ last.op = "delete" /\ last.confirmed

Loads == {"init", "restart"}

\* the three ways a load fails
FileAbsent     == last.op \in Loads /\ ~data_file.exists
FileUnparsable == last.op \in Loads /\ last.load = "decode_error"
FileUnreadable == last.op \in Loads /\ last.load = "read_error"

C7_FailedSaveLeavesFile ==
    last.save \in {"open_fail", "write_fail"}
    => /\ data_file = last.pre_file
       /\ SameBag(games, last.unsorted)
       /\ \E k \in 1..Len(last.notices) : last.notices[k] = "showerror: Failed to save games"
       /\ ~last.raised

\* the record has a name and a platform, and neither is the empty text
HasNameAndPlatform(game) ==
    /\ Get(game, K_name, <<>>) # <<>>
    /\ Get(game, K_platform, <<>>) # <<>>

\* C11: in every reachable state, after the start-up load of any backing file
\* and after any adds, edits and deletes, every record of the collection and
\* every record written to the backing file has a non-empty name and a
\* non-empty platform.
C11_RecordsHaveNameAndPlatform ==
    /\ \A k \in 1..Len(games) : HasNameAndPlatform(games[k])
    /\ last.save = "ok"
       => \A k \in 1..Len(last.unsorted) : HasNameAndPlatform(last.unsorted[k])

\* the place the stable sort by lowered name gives to the record at place k of
\* gs: behind the records with a smaller key, and behind the records with the
\* same key that stand before it in gs
SortedPosition(gs, k) ==
    Cardinality({j \in 1..Len(gs) : StrLess(LoweredName(gs[j]), LoweredName(gs[k]))})
    + Cardinality({j \in 1..k : LoweredName(gs[j]) = LoweredName(gs[k])})

\* C12: the record at selected_game_index is the record the user selected: a
\* successful add or edit, which re-sorts the collection and keeps the index,
\* leaves the record that stood at the index where it stood, so that Edit
\* Selected and Delete Selected act on the selected record.
C12_RetainedIndexSameRecord ==
    (last.op \in {"save_add", "save_edit"} /\ selected_game_index # -1)
    => /\ selected_game_index = last.pre_selected
       /\ SortedPosition(last.unsorted, last.pre_selected + 1) = selected_game_index + 1

\* C13: in every reachable state selected_game_index is -1 or an index of the
\* collection, 0 <= selected_game_index < len(games), so that no handler that
\* indexes games by it (show_edit_game_form, save_game_from_form, delete_game)
\* raises IndexError.
C13_SelectedIndexValid ==
    /\ \/ selected_game_index = -1
       \/ (0 <= selected_game_index /\ selected_game_index < Len(games))
    /\ ~last.raised

\* the index of the last row is kept across an accepted add
C13_Witness ==
    /\ last.op = "save_add"
    /\ last.pre_selected = Len(last.pre_games) - 1
    /\ selected_game_index = last.pre_selected
    /\ Len(games) = 3

\* the place of the record an edit form was opened for, before the save
EditedPlace == last.pre_selected + 1

\* C14: a successful save from a form opened by Edit Selected updates, in
\* place, the record that form was opened for, and the collection keeps its
\* length; the append branch is taken only from a form opened by Add New Game;
\* while an edit form is open selected_game_index is not -1 and names the
\* record the form shows.
C14_EditSaveKeepsLength ==
    /\ (last.op \in {"save_add", "save_edit"} /\ last.form = "edit")
       => /\ last.op = "save_edit"
          /\ Len(games) = Len(last.pre_games)
          /\ last.pre_selected # -1
          /\ last.pre_games[EditedPlace] = last.shown
          /\ last.unsorted = [last.pre_games EXCEPT ![EditedPlace] =
                                 DictUpdate(last.shown, FormRecord(last.arg, clock))]
          /\ SameBag(games, last.unsorted)
    /\ last.op = "save_add"
       => /\ last.form = "add"
          /\ Len(games) = Len(last.pre_games) + 1
    /\ (details_frame.view = "form" /\ details_frame.is_edit_mode)
       => /\ selected_game_index # -1
          /\ selected_game_index + 1 \in 1..Len(games)
          /\ games[selected_game_index + 1] = details_frame.game

\* an edit whose new name moves the record to another row
C14_Witness ==
    /\ last.op = "save_edit"
    /\ last.form = "edit"
    /\ Len(games) = 2
    /\ games # last.unsorted
    /\ last.shown # games[1] /\ last.shown # games[2]

-----------------------------------------------------------------------------
(* Properties of the launch dispatcher, checked under LaunchSpec *)

Mechs(calls) == [k \in 1..Len(calls) |-> calls[k].mech]

EndsWithExe(path)   == EndsWith(Lower(path), T_exe)
IsSteamUri(path)    == StartsWith(path, T_steam)
IsEpicUri(path)     == StartsWith(path, T_epicgames)
AskedElevation      == launch.prompts = <<"askyesno: Launch as Admin?">>

\* C8: the decision table, first match first: (1) an empty path gives the 'no
\* path specified' notice and starts nothing on any host; (2) windows and
\* '.exe' in any case: the elevation prompt, and the elevated launch when the
\* user confirms; (3) windows and 'steam://': explorer on the URI; (4) windows
\* and 'epicgames://': explorer on the URI; (5) windows otherwise:
\* os.startfile on the path; (6) macOS: open; (7) other unix: xdg-open.  A
\* windows path that matches rules 2 and 3 gets the prompt of rule 2.
C8_DispatchTable ==
    launch.called =>
    LET path == launch.path
        win  == sys_platform = "win32"
    IN
    /\ path = <<>>
       => /\ launch.notices = <<"showinfo: No launch path specified">>
          /\ launch.calls = <<>> /\ launch.prompts = <<>>
    /\ (path # <<>> /\ win /\ EndsWithExe(path))
       => /\ AskedElevation
          /\ launch.env.answer => launch.calls[1].mech = "Popen powershell RunAs"
    /\ (path # <<>> /\ win /\ ~EndsWithExe(path) /\ IsSteamUri(path))
       => /\ Mechs(launch.calls) = <<"Popen explorer">> /\ launch.prompts = <<>>
    /\ (path # <<>> /\ win /\ ~EndsWithExe(path) /\ ~IsSteamUri(path) /\ IsEpicUri(path))
       => /\ Mechs(launch.calls) = <<"Popen explorer">> /\ launch.prompts = <<>>
    /\ (path # <<>> /\ win /\ ~EndsWithExe(path) /\ ~IsSteamUri(path) /\ ~IsEpicUri(path))
       => /\ Mechs(launch.calls) = <<"os.startfile">> /\ launch.prompts = <<>>
    /\ (path # <<>> /\ sys_platform = "darwin")
       => /\ Mechs(launch.calls) = <<"Popen open">> /\ launch.prompts = <<>>
    /\ (path # <<>> /\ sys_platform \notin {"win32", "darwin"})
       => /\ Mechs(launch.calls) = <<"Popen xdg-open">> /\ launch.prompts = <<>>
    /\ (win /\ EndsWithExe(path) /\ IsSteamUri(path))
       => /\ AskedElevation
          /\ launch.env.answer => Mechs(launch.calls)[1] = "Popen powershell RunAs"

C8_Witness ==
    /\ launch.called
    /\ sys_platform = "win32"
    /\ launch.path = T_steam \o <<"x", ".", "e", "x", "e">>
    /\ launch.env.answer
    /\ launch.env.popen = "ok"
    /\ Mechs(launch.calls) = <<"Popen powershell RunAs">>

\* the start requests of the call that the OS accepted
Accepted(calls) == {k \in 1..Len(calls) : calls[k].result = "ok"}

ConfirmedElevation ==
    /\ launch.called
    /\ sys_platform = "win32"
    /\ launch.path # <<>>
    /\ EndsWithExe(launch.path)
    /\ launch.env.answer

\* C9: on windows, once the user confirms elevation for a '.exe' path: when the
\* elevated start fails, os.startfile is tried on the same path exactly once,
\* and an error is reported if that fails too; when the elevated start
\* succeeds, os.startfile is not called; launch_game raises nothing and at most
\* one start request is accepted.
C9_ElevatedFallback ==
    ConfirmedElevation
    => /\ ~launch.raised
       /\ Cardinality(Accepted(launch.calls)) <= 1
       /\ launch.env.popen = "ok"
          => /\ Mechs(launch.calls) = <<"Popen powershell RunAs">>
             /\ launch.notices = <<"showinfo: Attempting to launch as administrator">>
       /\ launch.env.popen # "ok"
          => /\ Mechs(launch.calls) = <<"Popen powershell RunAs", "os.startfile">>
             /\ launch.calls[1].result # "ok"
             /\ launch.calls[2].result = StartFile(launch.env)
             /\ launch.calls[2].result # "ok"
                => launch.notices[Len(launch.notices)] =
                      "showerror: Could not launch via standard method"
             /\ launch.calls[2].result = "ok"
                => launch.notices[Len(launch.notices)] =
                      "showinfo: Attempting standard launch"

C9_Witness ==
    /\ ConfirmedElevation
    /\ launch.env.popen = "OSError"
    /\ Len(launch.calls) = 2
    /\ launch.calls[2] = Call("os.startfile", "FileNotFoundError")

\* the branches that open the literal path: os.startfile, open, xdg-open
StandardOpen ==
    /\ launch.called
    /\ launch.path # <<>>
    /\ Len(launch.calls) = 1
    /\ launch.calls[1].mech \in {"os.startfile", "Popen open", "Popen xdg-open"}

\* C10: on windows (standard open), macOS and other unix, a launch path that
\* does not exist gets the 'path does not exist' error and never a success
\* notice, and an existing path that cannot be started gets the generic 'could
\* not launch' error.
C10_MissingTargetReportedDistinctly ==
    StandardOpen
    => /\ ~launch.env.exists
          => launch.notices = <<"showerror: The specified path does not exist">>
       /\ (launch.env.exists /\ launch.calls[1].result # "ok")
          => launch.notices = <<"showerror: Could not launch">>

DeclinedElevation ==
    /\ launch.called
    /\ sys_platform = "win32"
    /\ launch.path # <<>>
    /\ EndsWithExe(launch.path)
    /\ ~launch.env.answer

\* C15: on windows, when the path ends with '.exe' and the user declines the
\* elevation prompt, the elevated launch is never invoked and the dispatch
\* goes on with the remaining rules: explorer for a 'steam://' path, else
\* explorer for an 'epicgames://' path, else os.startfile on the path, each
\* invoked exactly once and with its own notices.
C15_DeclinedElevationFallsThrough ==
    DeclinedElevation
    => /\ AskedElevation
       /\ ~launch.raised
       /\ \A k \in 1..Len(launch.calls) : launch.calls[k].mech # "Popen powershell RunAs"
       /\ IsSteamUri(launch.path)
          => /\ launch.calls = <<Call("Popen explorer", launch.env.popen)>>
             /\ launch.notices =
                   IF launch.env.popen = "ok"
                   THEN <<"showinfo: Attempting to launch Steam game via URI">>
                   ELSE <<"showerror: Could not launch Steam game via URI">>
       /\ (~IsSteamUri(launch.path) /\ IsEpicUri(launch.path))
          => /\ launch.calls = <<Call("Popen explorer", launch.env.popen)>>
             /\ launch.notices =
                   IF launch.env.popen = "ok"
                   THEN <<"showinfo: Attempting to launch Epic Games via URI">>
                   ELSE <<"showerror: Could not launch Epic Games via URI">>
       /\ (~IsSteamUri(launch.path) /\ ~IsEpicUri(launch.path))
          => /\ launch.calls = <<Call("os.startfile", StartFile(launch.env))>>
             /\ StartFile(launch.env) = "ok"
                => launch.notices = <<"showinfo: Attempting to launch">>
             /\ StartFile(launch.env) # "ok"
                => \E k \in 1..Len(launch.notices) :
                      launch.notices[k] \in {"showerror: The specified path does not exist",
                                             "showerror: Could not launch"}

\* a plain '.exe' path, declined, is started by os.startfile
C15_Witness ==
    /\ DeclinedElevation
    /\ launch.path = <<"g", ".", "e", "x", "e">>
    /\ launch.calls = <<Call("os.startfile", "ok")>>
    /\ launch.notices = <<"showinfo: Attempting to launch">>

=============================================================================
